---- MODULE Spec2Model ----
(***************************************************************************)
(* Model of the two ADA511 command line scripts:                           *)
(*   scripts/task1_conditional.py         (conditional distribution)       *)
(*   scripts/task2_patient_prediction.py  (tenth patient prediction)       *)
(*                                                                         *)
(* Text is modelled as sequences of one-character strings; numbers are     *)
(* exact rationals <<numerator, denominator>> in lowest terms with a       *)
(* positive denominator (the scripts use binary floating point; the model  *)
(* computes the same expressions exactly).  A CSV file is the sequence of  *)
(* rows csv.reader yields, each a sequence of cells; a comma separated     *)
(* command line value is the sequence of pieces str.split(",") yields.     *)
(***************************************************************************)
EXTENDS Integers, Sequences, FiniteSets, TLC

VARIABLES
    tool,               \* which script runs: 1 or 2 (0 for a direct function call)
    pc,                 \* position inside main
    source,             \* --file: the rows of the CSV file
    condition_axis,     \* --condition-axis
    condition_value,    \* --condition-value
    raw_probabilities,  \* --probabilities, split at the commas
    raw_sequence,       \* --sequence, split at the commas
    as_percentage,      \* --as-percentage
    table,              \* the JointProbabilityTable main holds
    distribution,       \* (labels, probabilities) returned by conditional_distribution
    probabilities,      \* args.probabilities
    sequence,           \* args.sequence
    probability,        \* the value returned by predict_tenth_patient / sequence_probability
    stdout,             \* the lines printed
    error               \* the exception that ended the run, "none" otherwise

vars == <<tool, pc, source, condition_axis, condition_value, raw_probabilities,
          raw_sequence, as_percentage, table, distribution, probabilities,
          sequence, probability, stdout, error>>

None == <<>>

----------------------------------------------------------------------------
(* Text *)

DigitChars == {"0", "1", "2", "3", "4", "5", "6", "7", "8", "9"}

DigitValue(c) ==
    CASE c = "0" -> 0 [] c = "1" -> 1 [] c = "2" -> 2 [] c = "3" -> 3
      [] c = "4" -> 4 [] c = "5" -> 5 [] c = "6" -> 6 [] c = "7" -> 7
      [] c = "8" -> 8 [] c = "9" -> 9

DigitChar(d) ==
    CASE d = 0 -> "0" [] d = 1 -> "1" [] d = 2 -> "2" [] d = 3 -> "3"
      [] d = 4 -> "4" [] d = 5 -> "5" [] d = 6 -> "6" [] d = 7 -> "7"
      [] d = 8 -> "8" [] d = 9 -> "9"

\* str(n) for n >= 0
RECURSIVE IntToStr(_)
IntToStr(n) == IF n < 10 THEN <<DigitChar(n)>>
               ELSE IntToStr(n \div 10) \o <<DigitChar(n % 10)>>

\* str.strip(): leading and trailing blanks removed
RECURSIVE LStrip(_)
LStrip(s) == IF s # <<>> /\ Head(s) = " " THEN LStrip(Tail(s)) ELSE s

RECURSIVE RStrip(_)
RStrip(s) == IF s # <<>> /\ s[Len(s)] = " " THEN RStrip(SubSeq(s, 1, Len(s) - 1)) ELSE s

Strip(s) == RStrip(LStrip(s))

\* str.lower() on the letters the model uses
LowerChar(c) ==
    CASE c = "A" -> "a" [] c = "C" -> "c" [] c = "L" -> "l" [] c = "M" -> "m"
      [] c = "N" -> "n" [] c = "O" -> "o" [] c = "R" -> "r" [] c = "U" -> "u"
      [] c = "W" -> "w" [] OTHER -> c

Lower(s) == [i \in 1..Len(s) |-> LowerChar(s[i])]

\* a digit group of a Python numeric literal: digits, single underscores between them
IsDigitGroup(s) ==
    /\ s # <<>>
    /\ \A i \in 1..Len(s) : s[i] \in DigitChars \/ s[i] = "_"
    /\ s[1] # "_" /\ s[Len(s)] # "_"
    /\ \A i \in 1..(Len(s) - 1) : ~(s[i] = "_" /\ s[i + 1] = "_")

RECURSIVE DigitsValue(_, _)
DigitsValue(s, acc) ==
    IF s = <<>> THEN acc
    ELSE IF Head(s) = "_" THEN DigitsValue(Tail(s), acc)
    ELSE DigitsValue(Tail(s), 10 * acc + DigitValue(Head(s)))

RECURSIVE DigitCount(_)
DigitCount(s) ==
    IF s = <<>> THEN 0
    ELSE (IF Head(s) = "_" THEN 0 ELSE 1) + DigitCount(Tail(s))

RECURSIVE Pow10(_)
Pow10(n) == IF n = 0 THEN 1 ELSE 10 * Pow10(n - 1)

HasSign(s) == s # <<>> /\ Head(s) \in {"+", "-"}
Unsigned(s) == IF HasSign(s) THEN Tail(s) ELSE s
SignOf(s) == IF s # <<>> /\ Head(s) = "-" THEN -1 ELSE 1

\* int(value): blanks stripped, an optional sign, one digit group
ParseInt(value) ==
    LET s == Strip(value)
        body == Unsigned(s)
    IN IF IsDigitGroup(body)
       THEN [ok |-> TRUE, val |-> SignOf(s) * DigitsValue(body, 0)]
       ELSE [ok |-> FALSE, val |-> 0]

----------------------------------------------------------------------------
(* Exact arithmetic *)

Abs(n) == IF n < 0 THEN -n ELSE n

RECURSIVE Gcd(_, _)
Gcd(a, b) == IF b = 0 THEN a ELSE Gcd(b, a % b)

\* n/d in lowest terms, d # 0
Rat(n, d) ==
    LET g == Gcd(Abs(n), Abs(d))
        s == IF d < 0 THEN -1 ELSE 1
    IN <<(s * n) \div g, (s * d) \div g>>

Zero == <<0, 1>>
One == <<1, 1>>
RatAdd(a, b) == Rat(a[1] * b[2] + b[1] * a[2], a[2] * b[2])
RatDiv(a, b) == Rat(a[1] * b[2], a[2] * b[1])
RatMul(a, b) == Rat(a[1] * b[1], a[2] * b[2])
RatLt(a, b) == a[1] * b[2] < b[1] * a[2]
RatLe(a, b) == a[1] * b[2] <= b[1] * a[2]

\* sum(values), left to right from 0
RECURSIVE RatSum(_)
RatSum(values) ==
    IF values = <<>> THEN Zero
    ELSE RatAdd(RatSum(SubSeq(values, 1, Len(values) - 1)), values[Len(values)])

\* float(value) on decimal literals: blanks stripped, an optional sign, then
\* digits, digits "." [digits] or "." digits.  (Exponents, inf and nan need
\* letters that no modelled input contains.)
DotAt(s) == IF \E i \in 1..Len(s) : s[i] = "."
            THEN CHOOSE i \in 1..Len(s) : s[i] = "." /\ \A j \in 1..(i - 1) : s[j] # "."
            ELSE 0

ParseFloat(value) ==
    LET s == Strip(value)
        body == Unsigned(s)
        dot == DotAt(body)
        whole == IF dot = 0 THEN body ELSE SubSeq(body, 1, dot - 1)
        frac == IF dot = 0 THEN <<>> ELSE SubSeq(body, dot + 1, Len(body))
        okay == /\ whole # <<>> \/ frac # <<>>
                /\ whole = <<>> \/ IsDigitGroup(whole)
                /\ frac = <<>> \/ IsDigitGroup(frac)
    IN IF okay
       THEN [ok |-> TRUE,
             val |-> Rat(SignOf(s) * (DigitsValue(whole, 0) * Pow10(DigitCount(frac))
                                       + DigitsValue(frac, 0)),
                         Pow10(DigitCount(frac)))]
       ELSE [ok |-> FALSE, val |-> Zero]

----------------------------------------------------------------------------
(* task1_conditional.py *)

\* The exceptions load_joint_probability_table raises
LoadErrors == {"EmptyFile", "NoColumnLabel", "NonNumeric", "NoDataRows", "RowLength"}

\* [float(value) for value in row[1:]]
ParseCells(row) == [i \in 1..(Len(row) - 1) |-> ParseFloat(row[i + 1])]

CellsOk(row) == \A i \in 1..(Len(row) - 1) : ParseFloat(row[i + 1]).ok

\* the loop over the rows after the header: blank rows are skipped, the first
\* row with a non-numeric cell raises
RECURSIVE ReadRows(_, _, _)
ReadRows(rows, row_labels, values) ==
    IF rows = <<>> THEN [err |-> "none", row_labels |-> row_labels, values |-> values]
    ELSE LET row == Head(rows)
         IN IF row = <<>> THEN ReadRows(Tail(rows), row_labels, values)
            ELSE IF ~CellsOk(row)
                 THEN [err |-> "NonNumeric", row_labels |-> row_labels, values |-> values]
                 ELSE ReadRows(Tail(rows),
                               Append(row_labels, row[1]),
                               Append(values, [i \in 1..(Len(row) - 1) |-> ParseCells(row)[i].val]))

\* lines 94-100: every row of values is as wide as the column labels
RowLengthsIgnored(values, width) == TRUE

RowLengthsOk(values, width) == \A index \in 1..Len(values) : Len(values[index]) = width

load_joint_probability_table(src) ==
    IF src = <<>> THEN [err |-> "EmptyFile", table |-> None]
    ELSE LET header == Head(src)
         IN IF Len(header) < 2 THEN [err |-> "NoColumnLabel", table |-> None]
            ELSE LET column_labels == Tail(header)
                     read == ReadRows(Tail(src), <<>>, <<>>)
                     width == Len(column_labels)
                 IN IF read.err # "none" THEN [err |-> read.err, table |-> None]
                    ELSE IF read.values = <<>> THEN [err |-> "NoDataRows", table |-> None]
                    ELSE IF ~RowLengthsOk(read.values, width)
                         THEN [err |-> "RowLength", table |-> None]
                         ELSE [err |-> "none",
                               table |-> [row_labels |-> read.row_labels,
                                          column_labels |-> column_labels,
                                          values |-> read.values]]

\* column that reads the first column whatever the index
ColumnFirst(t, column) == [r \in 1..Len(t.values) |-> t.values[r][1]]

\* JointProbabilityTable.column / .row; indices are 0-based as in the code
Column(t, column) == [r \in 1..Len(t.values) |-> t.values[r][column + 1]]
Row(t, row_index) == t.values[row_index + 1]

\* list.index that returns the last equal element
ListIndexLast(labels, value) ==
    IF \E i \in 1..Len(labels) : labels[i] = value
    THEN (CHOOSE i \in 1..Len(labels) :
              labels[i] = value /\ \A j \in (i + 1)..Len(labels) : labels[j] # value) - 1
    ELSE -1

\* list.index(value): 0-based position of the first equal element, -1 for ValueError
ListIndex(labels, value) ==
    IF \E i \in 1..Len(labels) : labels[i] = value
    THEN (CHOOSE i \in 1..Len(labels) :
              labels[i] = value /\ \A j \in 1..(i - 1) : labels[j] # value) - 1
    ELSE -1

\* _resolve_index that tries the labels when the index is out of range
ResolveIndexWithFallback(labels, value) ==
    LET parsed == ParseInt(value)
        index == parsed.val - 1
    IN IF parsed.ok /\ 0 <= index /\ index < Len(labels)
       THEN [err |-> "none", index |-> index]
       ELSE IF ListIndex(labels, value) >= 0
            THEN [err |-> "none", index |-> ListIndex(labels, value)]
            ELSE [err |-> IF parsed.ok THEN "IndexRange" ELSE "LabelLookup", index |-> -1]

_resolve_index(labels, value) ==
    LET parsed == ParseInt(value)
        index == parsed.val - 1
    IN IF parsed.ok
       THEN IF 0 <= index /\ index < Len(labels)
            THEN [err |-> "none", index |-> index]
            ELSE [err |-> "IndexRange", index |-> -1]
       ELSE IF ListIndex(labels, value) >= 0
            THEN [err |-> "none", index |-> ListIndex(labels, value)]
            ELSE [err |-> "LabelLookup", index |-> -1]

\* Normalise with the last value left out of the total
NormaliseShortTotal(target_labels, raw_values) ==
    LET total == RatSum(SubSeq(raw_values, 1, Len(raw_values) - 1))
    IN IF RatLe(total, Zero)
       THEN [err |-> "NonPositiveTotal", labels |-> <<>>, probs |-> <<>>]
       ELSE [err |-> "none", labels |-> target_labels,
             probs |-> [i \in 1..Len(raw_values) |-> RatDiv(raw_values[i], total)]]

\* lines 172-179: total mass, the check, the division
Normalise(target_labels, raw_values) ==
    LET total == RatSum(raw_values)
    IN IF RatLe(total, Zero)
       THEN [err |-> "NonPositiveTotal", labels |-> <<>>, probs |-> <<>>]
       ELSE [err |-> "none", labels |-> target_labels,
             probs |-> [i \in 1..Len(raw_values) |-> RatDiv(raw_values[i], total)]]

conditional_distribution(t, axis_arg, value) ==
    LET axis == Lower(axis_arg)
    IN IF axis \notin {<<"c", "o", "l", "u", "m", "n">>, <<"r", "o", "w">>}
       THEN [err |-> "BadAxis", labels |-> <<>>, probs |-> <<>>]
       ELSE IF axis = <<"c", "o", "l", "u", "m", "n">>
            THEN LET res == _resolve_index(t.column_labels, value)
                 IN IF res.err # "none"
                    THEN [err |-> res.err, labels |-> <<>>, probs |-> <<>>]
                    ELSE Normalise(t.row_labels, Column(t, res.index))
            ELSE LET res == _resolve_index(t.row_labels, value)
                 IN IF res.err # "none"
                    THEN [err |-> res.err, labels |-> <<>>, probs |-> <<>>]
                    ELSE Normalise(t.column_labels, Row(t, res.index))

\* f"{x:.{places}f}": round to `places` decimals (ties to even), sign, integer
\* part, point, `places` digits
RECURSIVE ZeroPad(_, _)
ZeroPad(s, width) == IF Len(s) >= width THEN s ELSE ZeroPad(<<"0">> \o s, width)

FormatFixed(x, places) ==
    LET scale == Pow10(places)
        num == Abs(x[1]) * scale
        q == num \div x[2]
        r == num % x[2]
        rounded == IF 2 * r > x[2] \/ (2 * r = x[2] /\ q % 2 = 1) THEN q + 1 ELSE q
        whole == IntToStr(rounded \div scale)
        frac == ZeroPad(IntToStr(rounded % scale), places)
    IN (IF x[1] < 0 THEN <<"-">> ELSE <<>>) \o whole
       \o (IF places > 0 THEN <<".">> \o frac ELSE <<>>)

RECURSIVE JoinParts(_)
JoinParts(parts) ==
    IF parts = <<>> THEN <<>>
    ELSE IF Len(parts) = 1 THEN parts[1]
    ELSE parts[1] \o <<",", " ">> \o JoinParts(Tail(parts))

format_distribution(labels, probs) ==
    LET n == IF Len(labels) < Len(probs) THEN Len(labels) ELSE Len(probs)
        parts == [i \in 1..n |-> labels[i] \o <<":", " ">> \o FormatFixed(probs[i], 4)]
    IN <<"[">> \o JoinParts(parts) \o <<"]">>

AxisChoices == {<<"r", "o", "w">>, <<"c", "o", "l", "u", "m", "n">>}

\* parse_arguments: argparse rejects an axis outside the choices and exits
ParseArguments1 ==
    /\ tool = 1 /\ pc = "start"
    /\ IF condition_axis \in AxisChoices
       THEN pc' = "parsed" /\ error' = error
       ELSE pc' = "failed" /\ error' = "ArgumentError"
    /\ UNCHANGED <<tool, source, condition_axis, condition_value, raw_probabilities,
                   raw_sequence, as_percentage, table, distribution, probabilities,
                   sequence, probability, stdout>>

\* main, line 216
LoadTable ==
    /\ tool = 1 /\ pc = "parsed"
    /\ LET loaded == load_joint_probability_table(source)
       IN IF loaded.err = "none"
          THEN pc' = "loaded" /\ table' = loaded.table /\ error' = error
          ELSE pc' = "failed" /\ table' = table /\ error' = loaded.err
    /\ UNCHANGED <<tool, source, condition_axis, condition_value, raw_probabilities,
                   raw_sequence, as_percentage, distribution, probabilities,
                   sequence, probability, stdout>>

\* main, lines 217-219
ConditionalDistribution ==
    /\ tool = 1 /\ pc = "loaded"
    /\ LET res == conditional_distribution(table, condition_axis, condition_value)
       IN IF res.err = "none"
          THEN pc' = "computed" /\ distribution' = <<res.labels, res.probs>> /\ error' = error
          ELSE pc' = "failed" /\ distribution' = distribution /\ error' = res.err
    /\ UNCHANGED <<tool, source, condition_axis, condition_value, raw_probabilities,
                   raw_sequence, as_percentage, table, probabilities,
                   sequence, probability, stdout>>

\* main, line 220
PrintDistribution ==
    /\ tool = 1 /\ pc = "computed"
    /\ stdout' = Append(stdout, format_distribution(distribution[1], distribution[2]))
    /\ pc' = "done"
    /\ UNCHANGED <<tool, source, condition_axis, condition_value, raw_probabilities,
                   raw_sequence, as_percentage, table, distribution, probabilities,
                   sequence, probability, error>>

Next1 == ParseArguments1 \/ LoadTable \/ ConditionalDistribution \/ PrintDistribution

----------------------------------------------------------------------------
(* task2_patient_prediction.py *)

Patients == 10          \* length of a full sequence, the n of math.comb(10, k)
VectorLength == 11      \* p0 .. p10
ObservedLength == 9     \* patients already seen
ToleranceDen == 1000000000   \* rel_tol = abs_tol = 1e-9 = 1 / ToleranceDen

\* [part.strip() for part in raw.split(",") if part.strip()]
RECURSIVE StripParts(_)
StripParts(pieces) ==
    IF pieces = <<>> THEN <<>>
    ELSE IF Strip(Head(pieces)) = <<>> THEN StripParts(Tail(pieces))
    ELSE <<Strip(Head(pieces))>> \o StripParts(Tail(pieces))

\* math.isclose(total, 1.0, rel_tol=1e-9, abs_tol=1e-9):
\*   |total - 1| <= max(1e-9 * max(|total|, 1), 1e-9)
\* with total = n/d this is |n - d| * 10^9 <= max(|n|, d), as the relative
\* term is never below the absolute one; written with a quotient so that no
\* product leaves the integers TLC computes with
IsCloseToOne(total) ==
    LET n == total[1]
        d == total[2]
        big == IF Abs(n) > d THEN Abs(n) ELSE d
    IN Abs(n - d) <= big \div ToleranceDen

\* the sign check left out
NegativesIgnored(values) == FALSE

\* line 30: any(value < 0 for value in values)
AnyNegative(values) == \E i \in 1..Len(values) : RatLt(values[i], Zero)

parse_probability_vector(raw) ==
    LET parts == StripParts(raw)
        floats == [i \in 1..Len(parts) |-> ParseFloat(parts[i])]
        values == [i \in 1..Len(parts) |-> floats[i].val]
    IN IF Len(parts) # VectorLength THEN [err |-> "VectorLength", values |-> None]
       ELSE IF \E i \in 1..Len(parts) : ~floats[i].ok
            THEN [err |-> "VectorNumeric", values |-> None]
       ELSE IF AnyNegative(values)
            THEN [err |-> "VectorNegative", values |-> None]
       ELSE IF ~IsCloseToOne(RatSum(values))
            THEN [err |-> "VectorSum", values |-> None]
       ELSE [err |-> "none", values |-> values]

parse_sequence(raw) ==
    LET parts == StripParts(raw)
    IN IF Len(parts) # ObservedLength THEN [err |-> "SequenceLength", values |-> None]
       ELSE IF \E i \in 1..Len(parts) : parts[i] \notin {<<"0">>, <<"1">>}
            THEN [err |-> "SequenceEntry", values |-> None]
       ELSE [err |-> "none", values |-> [i \in 1..Len(parts) |-> ParseInt(parts[i]).val]]

\* sum(sequence)
RECURSIVE IntSum(_)
IntSum(s) == IF s = <<>> THEN 0 ELSE Head(s) + IntSum(Tail(s))

\* math.comb(n, k) for 0 <= k: 0 when k > n
RECURSIVE Comb(_, _)
Comb(n, k) ==
    IF k > n THEN 0
    ELSE IF k = 0 THEN 1
    ELSE (Comb(n, k - 1) * (n - k + 1)) \div k

\* sequence_probability without the division by the number of orderings
SequenceProbabilityUndivided(probs, seq) ==
    LET urgent_count == IntSum(seq)
    IN IF ~(0 <= urgent_count /\ urgent_count <= Patients)
       THEN [err |-> "UrgentRange", val |-> None]
       ELSE [err |-> "none", val |-> probs[urgent_count + 1]]

\* sequence_probability that counts the urgent patients among the first nine
SequenceProbabilityOfObserved(probs, seq) ==
    LET urgent_count == IntSum(SubSeq(seq, 1, ObservedLength))
    IN [err |-> "none",
        val |-> RatDiv(probs[urgent_count + 1], <<Comb(Patients, urgent_count), 1>>)]

sequence_probability(probs, seq) ==
    LET urgent_count == IntSum(seq)
    IN IF ~(0 <= urgent_count /\ urgent_count <= Patients)
       THEN [err |-> "UrgentRange", val |-> None]
       ELSE LET total_configurations == Comb(Patients, urgent_count)
            IN IF total_configurations = 0
               THEN [err |-> "ZeroConfigurations", val |-> None]
               ELSE IF urgent_count + 1 > Len(probs)
                    THEN [err |-> "IndexError", val |-> None]
                    ELSE [err |-> "none",
                          val |-> RatDiv(probs[urgent_count + 1],
                                         <<total_configurations, 1>>)]

predict_tenth_patient(probs, observed) ==
    IF Len(probs) # VectorLength THEN [err |-> "ProbLength", val |-> None]
    ELSE IF Len(observed) # ObservedLength THEN [err |-> "ObsLength", val |-> None]
    ELSE LET likelihood_last_urgent == sequence_probability(probs, observed \o <<1>>)
         IN IF likelihood_last_urgent.err # "none"
            THEN [err |-> likelihood_last_urgent.err, val |-> None]
            ELSE LET likelihood_last_nonurgent ==
                         sequence_probability(probs, observed \o <<0>>)
                 IN IF likelihood_last_nonurgent.err # "none"
                    THEN [err |-> likelihood_last_nonurgent.err, val |-> None]
                    ELSE LET denominator == RatAdd(likelihood_last_urgent.val,
                                                   likelihood_last_nonurgent.val)
                         IN IF denominator = Zero
                            THEN [err |-> "ZeroMass", val |-> None]
                            ELSE [err |-> "none",
                                  val |-> RatDiv(likelihood_last_urgent.val, denominator)]

format_probability(p, percentage) ==
    IF percentage
    THEN FormatFixed(RatMul(p, <<100, 1>>), 1) \o <<"%">>
    ELSE FormatFixed(p, 4)

\* parse_arguments: argparse converts each option with its type function in
\* the order the options stand on the command line and exits at the first
\* that fails, so with both values invalid either error can be the one reported
ParseArguments2 ==
    /\ tool = 2 /\ pc = "start"
    /\ LET vector == parse_probability_vector(raw_probabilities)
           observed == parse_sequence(raw_sequence)
       IN IF vector.err = "none" /\ observed.err = "none"
          THEN /\ pc' = "parsed"
               /\ probabilities' = vector.values
               /\ sequence' = observed.values
               /\ error' = error
          ELSE /\ pc' = "failed"
               /\ error' \in {vector.err, observed.err} \ {"none"}
               /\ UNCHANGED <<probabilities, sequence>>
    /\ UNCHANGED <<tool, source, condition_axis, condition_value, raw_probabilities,
                   raw_sequence, as_percentage, table, distribution, probability, stdout>>

\* main that goes on with 0 when predict_tenth_patient raises
PredictWithFallback ==
    /\ tool \in {0, 2} /\ pc = "parsed"
    /\ LET res == predict_tenth_patient(probabilities, sequence)
       IN probability' = IF res.err = "none" THEN res.val ELSE Zero
    /\ pc' = "computed"
    /\ UNCHANGED <<tool, source, condition_axis, condition_value, raw_probabilities,
                   raw_sequence, as_percentage, table, distribution, probabilities,
                   sequence, stdout, error>>

\* main, line 142; also a direct call of predict_tenth_patient (tool = 0)
PredictTenthPatient ==
    /\ tool \in {0, 2} /\ pc = "parsed"
    /\ LET res == predict_tenth_patient(probabilities, sequence)
       IN IF res.err = "none"
          THEN pc' = "computed" /\ probability' = res.val /\ error' = error
          ELSE pc' = "failed" /\ probability' = probability /\ error' = res.err
    /\ UNCHANGED <<tool, source, condition_axis, condition_value, raw_probabilities,
                   raw_sequence, as_percentage, table, distribution, probabilities,
                   sequence, stdout>>

\* main, line 143
PrintProbability ==
    /\ tool = 2 /\ pc = "computed"
    /\ stdout' = Append(stdout, format_probability(probability, as_percentage))
    /\ pc' = "done"
    /\ UNCHANGED <<tool, source, condition_axis, condition_value, raw_probabilities,
                   raw_sequence, as_percentage, table, distribution, probabilities,
                   sequence, probability, error>>

Next2 == ParseArguments2 \/ PredictTenthPatient \/ PrintProbability

----------------------------------------------------------------------------
(* Direct calls of sequence_probability on reordered sequences *)

Swap(s, i) == [j \in 1..Len(s) |-> IF j = i THEN s[i + 1] ELSE IF j = i + 1 THEN s[i] ELSE s[j]]

\* sequence_probability(probabilities, sequence), called directly
SequenceProbability ==
    /\ tool = 0 /\ pc = "start"
    /\ probability' = sequence_probability(probabilities, sequence)
    /\ pc' = "evaluated"
    /\ UNCHANGED <<tool, source, condition_axis, condition_value, raw_probabilities,
                   raw_sequence, as_percentage, table, distribution, probabilities,
                   sequence, stdout, error>>

\* the same call on the sequence with two neighbouring patients exchanged
Permute ==
    /\ tool = 0 /\ pc = "evaluated"
    /\ \E i \in 1..(Len(sequence) - 1) :
          /\ sequence[i] # sequence[i + 1]
          /\ sequence' = Swap(sequence, i)
    /\ probability' = sequence_probability(probabilities, sequence')
    /\ UNCHANGED <<tool, pc, source, condition_axis, condition_value, raw_probabilities,
                   raw_sequence, as_percentage, table, distribution, probabilities,
                   stdout, error>>

NextSeq == SequenceProbability \/ Permute

----------------------------------------------------------------------------
(* Inputs *)

MaxRows == 2        \* data rows of a CSV file
MaxCells == 3       \* cells of a CSV row, the label included
MaxMass == 2        \* non-zero entries of a probability vector

SeqsOf(S, lo, hi) == UNION {[1..n -> S] : n \in lo..hi}

\* rows of any width up to MaxCells, the blank row included
RaggedRows(Labels, Cells) ==
    {<<>>} \cup {<<l>> \o v : l \in Labels, v \in SeqsOf(Cells, 0, MaxCells - 1)}

Headers(Labels) ==
    {<<>>} \cup {<< <<>> >> \o v : v \in SeqsOf(Labels, 0, MaxCells - 1)}

RaggedSources(Labels, Cells, rows) ==
    {<<>>} \cup {<<h>> \o r : h \in Headers(Labels),
                              r \in SeqsOf(RaggedRows(Labels, Cells), 0, rows)}

ColName(j) == <<"c">> \o IntToStr(j)
RowName(i) == <<"r">> \o IntToStr(i)

\* well-formed files: `cols` by `rows` cells under the given labels
Rectangle(col_labels, row_labels, Cells) ==
    {<< <<<<>>>> \o col_labels >> \o [i \in 1..Len(row_labels) |-> <<row_labels[i]>> \o body[i]] :
        body \in [1..Len(row_labels) -> [1..Len(col_labels) -> Cells]]}

NamedSources(Cells) ==
    UNION {Rectangle([j \in 1..c |-> ColName(j)], [i \in 1..r |-> RowName(i)], Cells) :
               c \in 1..(MaxCells - 1), r \in 1..MaxRows}

\* well-formed files under labels drawn from Labels, cell (i, j) holding i + 2j,
\* so that no two rows and no two columns give the same distribution
LabelledSources(Labels) ==
    {<< <<<<>>>> \o cl >> \o [i \in 1..Len(rl) |->
                                 <<rl[i]>> \o [j \in 1..Len(cl) |-> IntToStr(i + 2 * j)]] :
        cl \in SeqsOf(Labels, 1, MaxCells - 1), rl \in SeqsOf(Labels, 1, MaxRows)}

Column_ == <<"c", "o", "l", "u", "m", "n">>
Row_ == <<"r", "o", "w">>

InitTask1(Sources, Axes, Values) ==
    /\ tool = 1 /\ pc = "start"
    /\ source \in Sources
    /\ condition_axis \in Axes
    /\ condition_value \in Values
    /\ raw_probabilities = None /\ raw_sequence = None /\ as_percentage = FALSE
    /\ table = None /\ distribution = None
    /\ probabilities = None /\ sequence = None /\ probability = None
    /\ stdout = <<>> /\ error = "none"

\* vectors and comma separated values with at most MaxMass entries that differ
\* from `zero`
Sparse(len, zero, Pool) ==
    UNION {{[i \in 1..len |-> IF i \in P THEN f[i] ELSE zero] : f \in [P -> Pool]} :
               P \in {Q \in SUBSET (1..len) : Cardinality(Q) <= MaxMass}}

Ramp == [i \in 1..VectorLength |-> Rat(i - 1, 55)]
Uniform == [i \in 1..VectorLength |-> Rat(1, VectorLength)]

OnesFirst(len, k) == [i \in 1..len |-> IF i <= k THEN 1 ELSE 0]
OnesLast(len, k) == [i \in 1..len |-> IF i > len - k THEN 1 ELSE 0]
Alternating(len, first) == [i \in 1..len |-> (i + first) % 2]

\* observations with every count of urgent patients, in several orders
Observed ==
    {OnesFirst(ObservedLength, k) : k \in 0..ObservedLength}
        \cup {OnesLast(ObservedLength, k) : k \in 0..ObservedLength}
        \cup {Alternating(ObservedLength, 0), Alternating(ObservedLength, 1)}

AsText(seq) == [i \in 1..Len(seq) |-> IntToStr(seq[i])]

InitTask2(Vectors, Sequences, Flags) ==
    /\ tool = 2 /\ pc = "start"
    /\ raw_probabilities \in Vectors
    /\ raw_sequence \in Sequences
    /\ as_percentage \in Flags
    /\ source = None /\ condition_axis = None /\ condition_value = None
    /\ table = None /\ distribution = None
    /\ probabilities = None /\ sequence = None /\ probability = None
    /\ stdout = <<>> /\ error = "none"

InitCall(position, Vectors, Sequences) ==
    /\ tool = 0 /\ pc = position
    /\ probabilities \in Vectors
    /\ sequence \in Sequences
    /\ raw_probabilities = None /\ raw_sequence = None /\ as_percentage = FALSE
    /\ source = None /\ condition_axis = None /\ condition_value = None
    /\ table = None /\ distribution = None /\ probability = None
    /\ stdout = <<>> /\ error = "none"

----------------------------------------------------------------------------
(* Specifications *)

\* task 1 on files of every shape
InitLoad == InitTask1(RaggedSources({<<"a">>}, {<<"2">>, <<"-", "1">>}, MaxRows),
                      AxisChoices, {<<"1">>})
SpecLoad == InitLoad /\ [][Next1]_vars

\* task 1 on well-formed files with distinct labels: non-negative cells, and
\* cells of both signs
InitCond == InitTask1(NamedSources({<<"0">>, <<"1">>, <<"2">>})
                          \cup NamedSources({<<"2">>, <<"-", "1">>}),
                      AxisChoices, {<<"2">>, <<"c", "1">>, <<"r", "1">>})
SpecCond == InitCond /\ [][Next1]_vars

\* task 1 on well-formed files with labels that repeat and labels that are numerals
InitResolve ==
    InitTask1(LabelledSources({<<"a">>, <<"A">>, <<"1">>, <<"2">>}), AxisChoices,
              {<<"0">>, <<"1">>, <<"2">>, <<"3">>, <<"4">>, <<"-", "1">>, <<"+", "1">>,
               <<" ", "2">>, <<"a">>, <<"A">>, <<"b">>, <<>>})
SpecResolve == InitResolve /\ [][Next1]_vars

\* task 2 from the command line
InitTask2All ==
    InitTask2(Sparse(VectorLength, <<"0">>, {<<".", "5">>, <<"1">>, <<"2">>, <<"-", "1">>}),
              {AsText(o) : o \in Observed}, {FALSE})
SpecTask2 == InitTask2All /\ [][Next2]_vars

\* predict_tenth_patient called directly
InitPredict ==
    InitCall("parsed",
             Sparse(VectorLength, Zero, {One, <<-10, 1>>})
                 \cup {Ramp, Uniform, [i \in 1..10 |-> Zero], [i \in 1..12 |-> Zero]},
             [1..ObservedLength -> {0, 1}]
                 \cup {OnesFirst(8, 4), OnesFirst(10, 4), [i \in 1..ObservedLength |-> 2]})
SpecPredict == InitPredict /\ [][PredictTenthPatient]_vars

\* sequence_probability called directly
InitSeq ==
    InitCall("start",
             Sparse(VectorLength, Zero, {One}) \cup {Ramp, Uniform},
             {OnesFirst(Patients, k) : k \in 0..Patients})
SpecSeq == InitSeq /\ [][NextSeq]_vars

\* both scripts from the command line
InitMain ==
    \/ InitTask1(RaggedSources({<<"a">>}, {<<"1">>, <<"0">>, <<"x">>}, 1),
                 AxisChoices \cup {<<"R", "o", "w">>},
                 {<<"1">>, <<"9">>, <<"a">>, <<"z">>})
    \/ InitTask2({v \o t : v \in {w \in Sparse(VectorLength, <<"0">>,
                                               {<<".", "5">>, <<"1">>, <<"-", "1">>,
                                                <<"x">>, <<" ">>}) :
                                    \A i, j \in 1..VectorLength :
                                        (w[i] # <<"0">> /\ w[j] # <<"0">>) => j - i \in {-1, 0, 1}},
                          t \in {<<>>, << <<>> >>, << <<"0">> >>}},
                 {AsText(OnesFirst(ObservedLength, k)) : k \in 0..ObservedLength}
                     \cup {[i \in 1..ObservedLength |-> <<"2">>],
                           [i \in 1..8 |-> <<"1">>],
                           [i \in 1..10 |-> IF i = 5 THEN <<" ">> ELSE <<"1">>]},
                 BOOLEAN)
Next == Next1 \/ Next2
Spec == InitMain /\ [][Next]_vars

----------------------------------------------------------------------------
(* Properties of task1_conditional.py *)

\* conditional_distribution has been called in this run
Conditioned == tool = 1 /\ table # None /\ pc # "loaded"

\* conditional_distribution has returned a result in this run
Returned == tool = 1 /\ pc \in {"computed", "done"}

\* the labels of the axis conditioned on, and of the other axis
AxisLabels == IF condition_axis = Column_ THEN table.column_labels ELSE table.row_labels
OtherLabels == IF condition_axis = Column_ THEN table.row_labels ELSE table.column_labels

\* values[i][s] for the rows i (axis column), values[s][j] for the columns j
\* (axis row); s is 0-based
Line(s) == IF condition_axis = Column_
           THEN [i \in 1..Len(table.values) |-> table.values[i][s + 1]]
           ELSE [j \in 1..Len(table.column_labels) |-> table.values[s + 1][j]]

\* a/b = x/y on rationals, by cross multiplication
SameRatio(a, b, x, y) == a[1] * b[2] * x[2] * y[1] = x[1] * y[2] * a[2] * b[1]

NonNegativeTable == \A i \in 1..Len(table.values) : \A j \in 1..Len(table.values[i]) :
                        table.values[i][j][1] >= 0

\* C1: when the selector resolves to s, conditional_distribution returns the
\* labels of the other axis in order and, for each of them, the cell of line s
\* divided by the total of line s, if that total is > 0; if the total is <= 0
\* it raises the total-mass error and returns nothing.
C1_ConditionalIsCellOverTotal ==
    Conditioned =>
        LET res == _resolve_index(AxisLabels, condition_value)
            raw == Line(res.index)
            total == RatSum(raw)
        IN res.err = "none" =>
              IF total[1] > 0
              THEN /\ Returned
                   /\ distribution[1] = OtherLabels
                   /\ Len(distribution[2]) = Len(OtherLabels)
                   /\ \A i \in 1..Len(raw) :
                         SameRatio(distribution[2][i], One, raw[i], total)
              ELSE /\ pc = "failed" /\ error = "NonPositiveTotal"
                   /\ distribution = None /\ stdout = <<>>

\* a 2 x 2 table conditioned on its second column, with unequal cells
C1_Witness ==
    /\ Returned /\ condition_axis = Column_ /\ condition_value = <<"2">>
    /\ table.values = << <<Zero, <<1, 1>> >>, << <<1, 1>>, <<2, 1>> >> >>
    /\ distribution = << <<RowName(1), RowName(2)>>, << <<1, 3>>, <<2, 3>> >> >>

\* C2: on a table with non-negative cells the probabilities returned sum to 1.
C2_ProbabilitiesSumToOne ==
    (Returned /\ NonNegativeTable) => RatSum(distribution[2]) = One

C2_Witness ==
    /\ Returned /\ NonNegativeTable /\ condition_axis = Row_
    /\ distribution[2] = << <<1, 3>>, <<2, 3>> >>

\* the loader has run on the file
Loaded == tool = 1 /\ pc \notin {"start", "parsed"}

HeaderCells == IF source = <<>> THEN 0 ELSE Len(source[1])

\* C4 as claimed: a file with a row after the header whose cell count differs
\* from the header's, the blank row included, is refused with a format error
\* and gives no table; a table is returned only when every row has the
\* header's cell count.
C4_AnyOddRowRefused ==
    Loaded =>
        /\ (\E r \in 2..Len(source) : Len(source[r]) # HeaderCells)
              => (pc = "failed" /\ error \in LoadErrors /\ table = None
                  /\ distribution = None)
        /\ table # None => \A r \in 2..Len(source) : Len(source[r]) = HeaderCells

\* C4 as amended: the same of the rows that are not blank; blank rows are skipped.
C4_OddNonBlankRowRefused ==
    Loaded =>
        /\ (\E r \in 2..Len(source) : source[r] # <<>> /\ Len(source[r]) # HeaderCells)
              => (pc = "failed" /\ error \in LoadErrors /\ table = None
                  /\ distribution = None)
        /\ table # None => \A r \in 2..Len(source) :
                               source[r] # <<>> => Len(source[r]) = HeaderCells

\* a file whose second data row is one cell short
C4_Witness ==
    /\ Loaded /\ pc = "failed" /\ error = "RowLength"
    /\ Len(source) = 3 /\ Len(source[1]) = 3 /\ Len(source[2]) = 3 /\ Len(source[3]) = 2

\* C10 as claimed: every probability returned for a table the loader returned
\* lies between 0 and 1.
C10_ProbabilitiesInUnitInterval ==
    Returned => \A i \in 1..Len(distribution[2]) :
                    RatLe(Zero, distribution[2][i]) /\ RatLe(distribution[2][i], One)

\* what the call of conditional_distribution in this run gave, in the form the
\* function returns it
RunResult ==
    [err |-> error,
     labels |-> IF Returned THEN distribution[1] ELSE <<>>,
     probs |-> IF Returned THEN distribution[2] ELSE <<>>]

\* C3 as claimed: for every position i, the selector labels[i-1] gives what
\* the selector str(i) gives, also under repeated labels and labels that are
\* numerals.
C3_LabelSameAsIndex ==
    Conditioned =>
        \A i \in 1..Len(AxisLabels) :
            condition_value = AxisLabels[i] =>
                /\ _resolve_index(AxisLabels, condition_value)
                       = _resolve_index(AxisLabels, IntToStr(i))
                /\ RunResult = conditional_distribution(table, condition_axis, IntToStr(i))

\* C3 as amended: the same for the positions i whose label does not parse as
\* an integer and does not stand at an earlier position too.
C3_FirstNonNumeralLabelSameAsIndex ==
    Conditioned =>
        \A i \in 1..Len(AxisLabels) :
            (/\ condition_value = AxisLabels[i]
             /\ ~ParseInt(AxisLabels[i]).ok
             /\ \A j \in 1..(i - 1) : AxisLabels[j] # AxisLabels[i]) =>
                /\ _resolve_index(AxisLabels, condition_value)
                       = _resolve_index(AxisLabels, IntToStr(i))
                /\ RunResult = conditional_distribution(table, condition_axis, IntToStr(i))

\* the label "A" of the second column, printed as what index 2 gives
C3_Witness ==
    /\ tool = 1 /\ pc = "done" /\ condition_axis = Column_
    /\ condition_value = <<"A">>
    /\ table.column_labels = << <<"a">>, <<"A">> >>
    /\ Len(table.values) = 2
    /\ distribution[2] = << <<5, 11>>, <<6, 11>> >>

FirstMatch(labels, value) ==
    CHOOSE i \in 1..Len(labels) : labels[i] = value /\ \A j \in 1..(i - 1) : labels[j] # value

\* C5: a selector that parses as an integer n gives index n-1 when
\* 1 <= n <= len(labels) and the range error otherwise, with no label match
\* tried; a selector that does not parse gives the position of the label equal
\* to it, and the lookup error when there is none.
C5_ResolveIndexCases ==
    Conditioned =>
        LET n == ParseInt(condition_value)
            res == _resolve_index(AxisLabels, condition_value)
        IN IF n.ok
           THEN IF 1 <= n.val /\ n.val <= Len(AxisLabels)
                THEN /\ res = [err |-> "none", index |-> n.val - 1]
                     /\ RunResult = Normalise(OtherLabels, Line(n.val - 1))
                ELSE /\ res.err = "IndexRange"
                     /\ pc = "failed" /\ error = "IndexRange" /\ distribution = None
           ELSE IF \E i \in 1..Len(AxisLabels) : AxisLabels[i] = condition_value
                THEN /\ res = [err |-> "none",
                               index |-> FirstMatch(AxisLabels, condition_value) - 1]
                     /\ RunResult = Normalise(OtherLabels,
                                              Line(FirstMatch(AxisLabels, condition_value) - 1))
                ELSE /\ res.err = "LabelLookup"
                     /\ pc = "failed" /\ error = "LabelLookup" /\ distribution = None

\* the selector "2" on the single column labelled "2": out of range, not matched
C5_Witness ==
    /\ tool = 1 /\ pc = "failed" /\ error = "IndexRange"
    /\ condition_axis = Column_ /\ condition_value = <<"2">>
    /\ table.column_labels = << <<"2">> >>

----------------------------------------------------------------------------
(* Properties of task2_patient_prediction.py *)

RECURSIVE Factorial(_)
Factorial(n) == IF n = 0 THEN 1 ELSE n * Factorial(n - 1)

Binomial(n, k) == Factorial(n) \div (Factorial(k) * Factorial(n - k))

Ones(seq) == Cardinality({i \in 1..Len(seq) : seq[i] = 1})

IsBinary(seq) == \A i \in 1..Len(seq) : seq[i] \in {0, 1}

\* C6: with k ones observed, L1 = prior[k+1] / binomial(10, k+1) and
\* L0 = prior[k] / binomial(10, k), predict_tenth_patient raises the zero-mass
\* error when L1 + L0 = 0 and returns L1 / (L1 + L0) otherwise; no other error
\* occurs.  With prior[k+1] = x1/y1 and prior[k] = x0/y0,
\*   L1 + L0 = s / (y1 y0 C1 C0)  for  s = x1 y0 C0 + x0 y1 C1,
\*   L1 / (L1 + L0) = x1 y0 C0 / s.
C6_PredictionIsLikelihoodRatio ==
    (/\ tool = 0 /\ pc # "parsed"
     /\ Len(probabilities) = VectorLength
     /\ Len(sequence) = ObservedLength /\ IsBinary(sequence)) =>
        LET k == Ones(sequence)
            x1 == probabilities[k + 2][1]
            y1 == probabilities[k + 2][2]
            x0 == probabilities[k + 1][1]
            y0 == probabilities[k + 1][2]
            C1 == Binomial(Patients, k + 1)
            C0 == Binomial(Patients, k)
            s == x1 * y0 * C0 + x0 * y1 * C1
        IN IF s = 0
           THEN pc = "failed" /\ error = "ZeroMass" /\ probability = None
           ELSE /\ pc = "computed" /\ error = "none"
                /\ probability[2] # 0
                /\ probability[1] * s = probability[2] * x1 * y0 * C0

\* the uniform prior after four urgent patients: (1/11)/252 against (1/11)/210
C6_Witness ==
    /\ tool = 0 /\ pc = "computed"
    /\ probabilities = Uniform /\ sequence = OnesFirst(ObservedLength, 4)
    /\ probability = <<5, 11>>

\* C7: a value predict_tenth_patient returns for a parsed prior (11
\* non-negative entries summing to 1) and 9 parsed binary observations lies
\* in [0, 1].
C7_PredictionInUnitInterval ==
    (tool = 2 /\ pc \in {"computed", "done"}) =>
        RatLe(Zero, probability) /\ RatLe(probability, One)

\* mass 1/2 on two and on three urgent patients, two seen: 3/11
C7_Witness ==
    /\ tool = 2 /\ pc = "computed"
    /\ Ones(sequence) = 2
    /\ probabilities[3] = <<1, 2>> /\ probabilities[4] = <<1, 2>>
    /\ probability = <<3, 11>>

\* C8: sequence_probability gives the same value for a sequence of ten and
\* for the sequence with two neighbours exchanged (hence for every
\* reordering), and predict_tenth_patient the same result when the exchange is
\* among the nine observations.
C8_OrderDoesNotMatter ==
    [][(tool = 0 /\ pc = "evaluated") =>
          /\ probability' = probability
          /\ sequence'[Patients] = sequence[Patients] =>
                predict_tenth_patient(probabilities, SubSeq(sequence', 1, ObservedLength))
                    = predict_tenth_patient(probabilities, SubSeq(sequence, 1, ObservedLength))]_vars

\* a reordered sequence with five urgent patients under the ramp prior
C8_Witness ==
    /\ tool = 0 /\ pc = "evaluated"
    /\ probabilities = Ramp /\ sequence = Alternating(Patients, 0)
    /\ probability = [err |-> "none", val |-> <<1, 2772>>]

----------------------------------------------------------------------------
(* Properties of both scripts *)

ComputeErrors == {"BadAxis", "IndexRange", "LabelLookup", "NonPositiveTotal",
                  "ProbLength", "ObsLength", "UrgentRange", "ZeroConfigurations",
                  "IndexError", "ZeroMass"}

\* the arguments of task 2 passed every check of the parsers
Validated ==
    /\ Len(probabilities) = VectorLength
    /\ \A i \in 1..Len(probabilities) : probabilities[i][1] >= 0
    /\ IsCloseToOne(RatSum(probabilities))
    /\ Len(sequence) = ObservedLength /\ IsBinary(sequence)

C9_State ==
    /\ Len(stdout) <= 1
    /\ stdout # <<>> => (pc = "done" /\ error = "none")
    /\ (error # "none") <=> (pc = "failed")
    /\ pc = "failed" => stdout = <<>>
    /\ (tool = 1 /\ pc \in {"computed", "done"}) =>
          /\ condition_axis \in AxisChoices
          /\ load_joint_probability_table(source) = [err |-> "none", table |-> table]
          /\ conditional_distribution(table, condition_axis, condition_value)
                 = [err |-> "none", labels |-> distribution[1], probs |-> distribution[2]]
    /\ (tool = 1 /\ pc = "done") =>
          stdout = <<format_distribution(distribution[1], distribution[2])>>
    /\ (tool = 2 /\ (pc \in {"parsed", "computed", "done"}
                     \/ (pc = "failed" /\ error \in ComputeErrors))) => Validated
    /\ (tool = 2 /\ pc \in {"computed", "done"}) =>
          predict_tenth_patient(probabilities, sequence) = [err |-> "none", val |-> probability]
    /\ (tool = 2 /\ pc = "done") =>
          stdout = <<format_probability(probability, as_percentage)>>

C9_Step ==
    /\ pc \notin {"failed", "done"}
    /\ stdout' # stdout => (stdout = <<>> /\ pc = "computed" /\ error = "none")

\* C9: a run prints at most one line, and only after the arguments were
\* validated and the computation returned; an error at any step ends the run
\* with nothing printed and no value in place of the result; task 2 validates
\* the prior and the sequence before predict_tenth_patient starts.
C9_OutputOnlyAfterSuccess == []C9_State /\ [][C9_Step]_vars

\* validated arguments of task 2 whose two completions both have mass zero
C9_Witness ==
    /\ tool = 2 /\ pc = "failed" /\ error = "ZeroMass" /\ stdout = <<>>
    /\ Validated /\ probability = None

====
